---------------------------- MODULE Spec2Model ----------------------------
(***************************************************************************)
(* Bubble sort engine of bubble_sort_oo.py (class BubbleSorter with the    *)
(* strategies standard, optimized and bidirectional, its comparison and    *)
(* swap counters, sort and benchmark) and the plain in-place functions of  *)
(* bubble_sort.py (bubble_sort, bubble_sort_optimized).                    *)
(*                                                                         *)
(* A Python list is a sequence; the code's 0-based index i is position     *)
(* i + 1 of the sequence.  A list element is an object: a record with the  *)
(* key that `>` compares and an id that stands for the object's identity,  *)
(* so that two elements with equal keys can be told apart.                 *)
(***************************************************************************)
EXTENDS Integers, Sequences, FiniteSets, TLC

\* Longest list the caller holds.
MaxLen == 4

\* Keys are 1 .. MaxKey.
MaxKey == 3

\* class SortStrategy: the enumeration's values, and its iteration order.
SortStrategy == {"standard", "optimized", "bidirectional"}

StrategyOrder == <<"standard", "optimized", "bidirectional">>

\* What self.strategy can hold: Python does not check the attribute's type,
\* so a value outside the enumeration can be stored in it.
AnyStrategy == SortStrategy \cup {"quick"}

VARIABLES
    self,   \* the BubbleSorter instance: strategy, comparisons, swaps, execution_time;
            \* None in bubble_sort.py, which has none
    arr,    \* the caller's list
    ret,    \* what the last call returned or raised; None before any call
    call    \* the last operation: its name, the caller's list as it was passed,
            \* and whether the engine's counters were non-zero on entry

vars == <<self, arr, ret, call>>

None == [type |-> "None"]

----------------------------------------------------------------------------
\* Python list primitives.

\* a[i], 0-based.
At(a, i) == a[i + 1]

\* a[i], a[j] = a[j], a[i]
exchange(a, i, j) == [a EXCEPT ![i + 1] = a[j + 1], ![j + 1] = a[i + 1]]

\* Mutant of gt: the comparison written >=.
gt_or_equal(a, b) == a.key >= b.key

\* a > b on elements: the keys decide, the identity does not.
gt(a, b) == a.key > b.key

\* len(arr)
len(a) == Len(a)

----------------------------------------------------------------------------
\* class BubbleSorter.  A method works on m = [self, heap]: the instance and
\* the lists it can reach, heap.arr being the caller's list and heap.arr_copy
\* the method's own copy.  A list is passed by reference: ref names it.

\* execution_time is a wall-clock duration that no operation reads back: it
\* is "0.0" until a sort has been timed and "elapsed" (whatever
\* time.time() - start_time gave) after one.
__init__(strategy) ==
    [strategy |-> strategy, comparisons |-> 0, swaps |-> 0, execution_time |-> "0.0"]

\* Mutant of reset_metrics: nothing is reset.
reset_metrics_nothing(s) == s

\* Mutant of reset_metrics: the comparison counter is forgotten.
reset_metrics_swaps_only(s) ==
    [s EXCEPT !.swaps = 0, !.execution_time = "0.0"]

reset_metrics(s) ==
    [s EXCEPT !.comparisons = 0, !.swaps = 0, !.execution_time = "0.0"]

_compare(m, a, b) ==
    [m |-> [m EXCEPT !.self.comparisons = @ + 1], ret |-> gt(a, b)]

\* Mutant of _swap: the swap is not counted.
_swap_uncounted(m, ref, i, j) ==
    [m EXCEPT !.heap[ref] = exchange(@, i, j)]

_swap(m, ref, i, j) ==
    [m EXCEPT !.heap[ref] = exchange(@, i, j), !.self.swaps = @ + 1]

\* Mutant of copy: arr_copy = arr, the same list under a second name.
copy_alias(m, ref) == [m |-> m, ref |-> ref]

\* arr.copy(): a new list with the same elements; the result names the new list.
copy(m, ref) ==
    [m |-> [m EXCEPT !.heap.arr_copy = m.heap[ref]], ref |-> "arr_copy"]

\* sort_standard: for j in range(j, stop), with the flag swapped.
RECURSIVE standard_inner(_, _, _, _, _)
standard_inner(m, ref, j, stop, swapped) ==
    IF j >= stop THEN [m |-> m, swapped |-> swapped]
    ELSE LET c == _compare(m, At(m.heap[ref], j), At(m.heap[ref], j + 1))
         IN  IF c.ret
             THEN standard_inner(_swap(c.m, ref, j, j + 1), ref, j + 1, stop, TRUE)
             ELSE standard_inner(c.m, ref, j + 1, stop, swapped)

\* Mutant of standard_outer: every pass scans the whole list, range(0, n - 1).
RECURSIVE standard_outer_full(_, _, _, _)
standard_outer_full(m, ref, i, n) ==
    IF i >= n THEN m
    ELSE LET p == standard_inner(m, ref, 0, n - 1, FALSE)
         IN  IF ~p.swapped THEN p.m ELSE standard_outer_full(p.m, ref, i + 1, n)

\* sort_standard: for i in range(i, n), leaving at the first pass without a swap.
RECURSIVE standard_outer(_, _, _, _)
standard_outer(m, ref, i, n) ==
    IF i >= n THEN m
    ELSE LET p == standard_inner(m, ref, 0, n - i - 1, FALSE)
         IN  IF ~p.swapped THEN p.m ELSE standard_outer(p.m, ref, i + 1, n)

sort_standard(m, ref) ==
    LET n == len(m.heap[ref])
        c == copy(m, ref)
    IN  [m |-> standard_outer(c.m, c.ref, 0, n), ref |-> c.ref]

\* Mutant of optimized_inner: the boundary is one past the swap, current_swap = j + 1.
RECURSIVE optimized_inner_past(_, _, _, _, _)
optimized_inner_past(m, ref, j, stop, current_swap) ==
    IF j >= stop THEN [m |-> m, current_swap |-> current_swap]
    ELSE LET c == _compare(m, At(m.heap[ref], j), At(m.heap[ref], j + 1))
         IN  IF c.ret
             THEN optimized_inner_past(_swap(c.m, ref, j, j + 1), ref, j + 1, stop, j + 1)
             ELSE optimized_inner_past(c.m, ref, j + 1, stop, current_swap)

\* sort_optimized: for j in range(j, stop), with current_swap.
RECURSIVE optimized_inner(_, _, _, _, _)
optimized_inner(m, ref, j, stop, current_swap) ==
    IF j >= stop THEN [m |-> m, current_swap |-> current_swap]
    ELSE LET c == _compare(m, At(m.heap[ref], j), At(m.heap[ref], j + 1))
         IN  IF c.ret
             THEN optimized_inner(_swap(c.m, ref, j, j + 1), ref, j + 1, stop, j)
             ELSE optimized_inner(c.m, ref, j + 1, stop, current_swap)

\* sort_optimized: while last_swap > 0.
RECURSIVE optimized_while(_, _, _)
optimized_while(m, ref, last_swap) ==
    IF last_swap > 0
    THEN LET p == optimized_inner(m, ref, 0, last_swap, 0)
         IN  optimized_while(p.m, ref, p.current_swap)
    ELSE m

sort_optimized(m, ref) ==
    LET n == len(m.heap[ref])
        c == copy(m, ref)
    IN  [m |-> optimized_while(c.m, c.ref, n - 1), ref |-> c.ref]

\* sort_bidirectional: for i in range(i, stop).
RECURSIVE bidirectional_forward(_, _, _, _)
bidirectional_forward(m, ref, i, stop) ==
    IF i >= stop THEN m
    ELSE LET c == _compare(m, At(m.heap[ref], i), At(m.heap[ref], i + 1))
         IN  bidirectional_forward(IF c.ret THEN _swap(c.m, ref, i, i + 1) ELSE c.m,
                                   ref, i + 1, stop)

\* Mutant of bidirectional_backward: the backward pass also swaps equal neighbours.
RECURSIVE bidirectional_backward_equal(_, _, _, _)
bidirectional_backward_equal(m, ref, i, stop) ==
    IF i <= stop THEN m
    ELSE LET c == _compare(m, At(m.heap[ref], i - 1), At(m.heap[ref], i))
             eq == At(m.heap[ref], i - 1).key = At(m.heap[ref], i).key
         IN  bidirectional_backward_equal(
                 IF c.ret \/ eq THEN _swap(c.m, ref, i - 1, i) ELSE c.m, ref, i - 1, stop)

\* sort_bidirectional: for i in range(i, stop, -1).
RECURSIVE bidirectional_backward(_, _, _, _)
bidirectional_backward(m, ref, i, stop) ==
    IF i <= stop THEN m
    ELSE LET c == _compare(m, At(m.heap[ref], i - 1), At(m.heap[ref], i))
         IN  bidirectional_backward(IF c.ret THEN _swap(c.m, ref, i - 1, i) ELSE c.m,
                                    ref, i - 1, stop)

\* sort_bidirectional: while left < right.
RECURSIVE bidirectional_while(_, _, _, _)
bidirectional_while(m, ref, left, right) ==
    IF left < right
    THEN LET f == bidirectional_forward(m, ref, left, right)
             b == bidirectional_backward(f, ref, right - 1, left)
         IN  bidirectional_while(b, ref, left + 1, right - 1)
    ELSE m

\* Mutant of sort_bidirectional: right starts at n - 2.
sort_bidirectional_short(m, ref) ==
    LET c == copy(m, ref)
        n == len(c.m.heap[c.ref])
    IN  [m |-> bidirectional_while(c.m, c.ref, 0, n - 2), ref |-> c.ref]

sort_bidirectional(m, ref) ==
    LET c == copy(m, ref)
        n == len(c.m.heap[c.ref])
    IN  [m |-> bidirectional_while(c.m, c.ref, 0, n - 1), ref |-> c.ref]

\* Mutant of sort: the strategy is validated before the counters are reset.
sort_validate_first(m) ==
    LET strategy == m.self.strategy
        m0 == [m EXCEPT !.self = reset_metrics(m.self)]
    IN  IF strategy \in SortStrategy
        THEN LET r == CASE strategy = "standard" -> sort_standard(m0, "arr")
                        [] strategy = "optimized" -> sort_optimized(m0, "arr")
                        [] strategy = "bidirectional" -> sort_bidirectional(m0, "arr")
                 m1 == [r.m EXCEPT !.self.execution_time = "elapsed"]
             IN  [m |-> m1,
                  ret |-> [type |-> "SortResult",
                           sorted_array |-> m1.heap[r.ref],
                           execution_time |-> m1.self.execution_time,
                           comparisons |-> m1.self.comparisons,
                           swaps |-> m1.self.swaps,
                           strategy |-> m1.self.strategy]]
        ELSE [m |-> m, ret |-> [type |-> "ValueError", strategy |-> strategy]]

\* sort(arr), arr being heap.arr.  The outcome is the instance and heap after the call and the SortResult
\* returned or the ValueError raised.
sort(m) ==
    LET m0 == [m EXCEPT !.self = reset_metrics(m.self)]
        strategy == m0.self.strategy
    IN  IF strategy \in SortStrategy
        THEN LET r == CASE strategy = "standard" -> sort_standard(m0, "arr")
                        [] strategy = "optimized" -> sort_optimized(m0, "arr")
                        [] strategy = "bidirectional" -> sort_bidirectional(m0, "arr")
                 m1 == [r.m EXCEPT !.self.execution_time = "elapsed"]
             IN  [m |-> m1,
                  ret |-> [type |-> "SortResult",
                           sorted_array |-> m1.heap[r.ref],
                           execution_time |-> m1.self.execution_time,
                           comparisons |-> m1.self.comparisons,
                           swaps |-> m1.self.swaps,
                           strategy |-> m1.self.strategy]]
        ELSE [m |-> m0, ret |-> [type |-> "ValueError", strategy |-> strategy]]

\* benchmark: for strategy in SortStrategy, from the k-th on.
RECURSIVE benchmark_loop(_, _, _)
benchmark_loop(m, k, results) ==
    IF k > Len(StrategyOrder) THEN [m |-> m, results |-> results]
    ELSE LET strategy == StrategyOrder[k]
             r == sort([m EXCEPT !.self.strategy = strategy])
             entry == [execution_time |-> r.ret.execution_time,
                       comparisons |-> r.ret.comparisons,
                       swaps |-> r.ret.swaps]
         IN  benchmark_loop(r.m, k + 1,
                            [s \in DOMAIN results \cup {strategy} |->
                                IF s = strategy THEN entry ELSE results[s]])

benchmark(m) ==
    LET b == benchmark_loop(m, 1, << >>)
    IN  [m |-> b.m, ret |-> [type |-> "dict", results |-> b.results]]

----------------------------------------------------------------------------
\* bubble_sort.py: the plain functions sort the list they are given, in place.

RECURSIVE bubble_sort_inner(_, _, _, _)
bubble_sort_inner(a, j, stop, swapped) ==
    IF j >= stop THEN [arr |-> a, swapped |-> swapped]
    ELSE IF gt(At(a, j), At(a, j + 1))
         THEN bubble_sort_inner(exchange(a, j, j + 1), j + 1, stop, TRUE)
         ELSE bubble_sort_inner(a, j + 1, stop, swapped)

RECURSIVE bubble_sort_outer(_, _, _)
bubble_sort_outer(a, i, n) ==
    IF i >= n THEN a
    ELSE LET p == bubble_sort_inner(a, 0, n - i - 1, FALSE)
         IN  IF ~p.swapped THEN p.arr ELSE bubble_sort_outer(p.arr, i + 1, n)

bubble_sort(a) == bubble_sort_outer(a, 0, len(a))

RECURSIVE bubble_sort_optimized_inner(_, _, _, _)
bubble_sort_optimized_inner(a, j, stop, current_swap) ==
    IF j >= stop THEN [arr |-> a, current_swap |-> current_swap]
    ELSE IF gt(At(a, j), At(a, j + 1))
         THEN bubble_sort_optimized_inner(exchange(a, j, j + 1), j + 1, stop, j)
         ELSE bubble_sort_optimized_inner(a, j + 1, stop, current_swap)

RECURSIVE bubble_sort_optimized_while(_, _)
bubble_sort_optimized_while(a, last_swap) ==
    IF last_swap > 0
    THEN LET p == bubble_sort_optimized_inner(a, 0, last_swap, 0)
         IN  bubble_sort_optimized_while(p.arr, p.current_swap)
    ELSE a

bubble_sort_optimized(a) == bubble_sort_optimized_while(a, len(a) - 1)

----------------------------------------------------------------------------
\* The state machine: a caller that owns one list.  The two scripts do not
\* import each other: the caller of bubble_sort_oo.py also owns a BubbleSorter
\* and calls its methods, the caller of bubble_sort.py owns none (self is
\* None) and calls the plain functions.

HasSorter == self # None

Dirty == HasSorter /\ (self.comparisons > 0 \/ self.swaps > 0)

Entered(op) == [op |-> op, arg |-> arr, dirty |-> Dirty]

Machine == [self |-> self, heap |-> [arr |-> arr, arr_copy |-> << >>]]

\* The lists a caller can hold: up to MaxLen objects with keys 1 .. MaxKey,
\* each object with an identity of its own.
Inputs ==
    UNION {{[i \in 1 .. n |-> [key |-> ks[i], id |-> i]] : ks \in [1 .. n -> 1 .. MaxKey]} :
           n \in 0 .. MaxLen}

\* The caller has built its list and, in bubble_sort_oo.py, constructed
\* BubbleSorter() with the default strategy.
Init ==
    /\ self \in {__init__("standard"), None}
    /\ arr \in Inputs
    /\ ret = None
    /\ call = [op |-> "__init__", arg |-> << >>, dirty |-> FALSE]

\* sorter = BubbleSorter(strategy)
Construct(strategy) ==
    /\ HasSorter
    /\ self' = __init__(strategy)
    /\ ret' = None
    /\ call' = [op |-> "__init__", arg |-> << >>, dirty |-> FALSE]
    /\ UNCHANGED arr

\* sorter.strategy = strategy
SetStrategy(strategy) ==
    /\ HasSorter
    /\ self' = [self EXCEPT !.strategy = strategy]
    /\ ret' = None
    /\ call' = [op |-> "strategy", arg |-> << >>, dirty |-> FALSE]
    /\ UNCHANGED arr

\* The caller goes on with another list and the same sorter, as the benchmark
\* driver does; the other list is the empty one.
CallerClear ==
    /\ arr' = << >>
    /\ ret' = None
    /\ call' = [op |-> "clear", arg |-> << >>, dirty |-> FALSE]
    /\ UNCHANGED self

\* result = sorter.sort(arr)
Sort ==
    LET r == sort(Machine)
    IN  /\ HasSorter
        /\ self' = r.m.self
        /\ arr' = r.m.heap.arr
        /\ ret' = r.ret
        /\ call' = Entered("sort")

\* results = sorter.benchmark(arr)
Benchmark ==
    LET r == benchmark(Machine)
    IN  /\ HasSorter
        /\ self' = r.m.self
        /\ arr' = r.m.heap.arr
        /\ ret' = r.ret
        /\ call' = Entered("benchmark")

\* sorted_arr = bubble_sort(arr): the list returned is the list passed.
BubbleSort ==
    /\ ~HasSorter
    /\ arr' = bubble_sort(arr)
    /\ ret' = [type |-> "list", list |-> arr']
    /\ call' = Entered("bubble_sort")
    /\ UNCHANGED self

\* sorted_arr = bubble_sort_optimized(arr)
BubbleSortOptimized ==
    /\ ~HasSorter
    /\ arr' = bubble_sort_optimized(arr)
    /\ ret' = [type |-> "list", list |-> arr']
    /\ call' = Entered("bubble_sort_optimized")
    /\ UNCHANGED self

Next ==
    \/ \E s \in AnyStrategy : Construct(s)
    \/ \E s \in AnyStrategy : SetStrategy(s)
    \/ CallerClear
    \/ Sort
    \/ Benchmark
    \/ BubbleSort
    \/ BubbleSortOptimized

Spec == Init /\ [][Next]_vars

----------------------------------------------------------------------------
\* Vocabulary of the properties.

\* The list reads in non-decreasing order: no element is greater than a later one.
NonDecreasing(a) == \A i, j \in 1 .. Len(a) : i < j => ~(a[i].key > a[j].key)

Count(a, e) == Cardinality({i \in 1 .. Len(a) : a[i] = e})

\* b holds exactly the elements of a, each as many times.
SameMultiset(a, b) ==
    /\ Len(a) = Len(b)
    /\ \A i \in 1 .. Len(a) : Count(a, a[i]) = Count(b, a[i])

\* Reference sort: stable insertion of each element of a, in order, into a
\* sorted list (what Python's sorted(a) returns).
RECURSIVE Insert(_, _)
Insert(e, s) ==
    IF s = << >> THEN <<e>>
    ELSE IF Head(s).key > e.key THEN <<e>> \o s
         ELSE <<Head(s)>> \o Insert(e, Tail(s))

RECURSIVE RefSortFrom(_, _, _)
RefSortFrom(a, k, acc) ==
    IF k > Len(a) THEN acc ELSE RefSortFrom(a, k + 1, Insert(a[k], acc))

RefSort(a) == RefSortFrom(a, 1, << >>)

\* Position of the object e in the list a.
Pos(a, e) == CHOOSE i \in 1 .. Len(a) : a[i] = e

\* Number of inversions: pairs i < j with a[i] greater than a[j].
Inversions(a) ==
    Cardinality({p \in (1 .. Len(a)) \X (1 .. Len(a)) :
                    p[1] < p[2] /\ a[p[1]].key > a[p[2]].key})

\* n(n-1)/2 bounds c: 2c <= n(n-1).
WithinHalfSquare(c, n) == 2 * c <= n * (n - 1)

Sorted == call.op = "sort" /\ ret.type = "SortResult"

Benchmarked == call.op = "benchmark"

PlainSorted == call.op \in {"bubble_sort", "bubble_sort_optimized"}

\* What a freshly constructed BubbleSorter(strategy) returns for sort(a).
Fresh(a, strategy) ==
    sort([self |-> __init__(strategy), heap |-> [arr |-> a, arr_copy |-> << >>]]).ret

IsReferenceSort(input, output) ==
    /\ SameMultiset(input, output)
    /\ NonDecreasing(output)
    /\ output = RefSort(input)

----------------------------------------------------------------------------
\* C1: whatever list is passed, the list that sort returns under any of the
\* three strategies, and the list bubble_sort and bubble_sort_optimized
\* return, holds exactly the elements of the input, in non-decreasing order:
\* it is the reference sort of the input.
C1_SortedPermutation ==
    /\ Sorted => IsReferenceSort(call.arg, ret.sorted_array)
    /\ PlainSorted => IsReferenceSort(call.arg, ret.list)

\* A bidirectional sort of a list of four or more that needed several swaps.
C1_Witness ==
    /\ Sorted
    /\ ret.strategy = "bidirectional"
    /\ Len(call.arg) >= 4
    /\ ret.swaps >= 3
    /\ ret.sorted_array # call.arg

\* C2: sort and benchmark leave the caller's list as it was passed, element
\* for element: the swaps go to a copy.
C2_CallerListUntouched ==
    call.op \in {"sort", "benchmark"} => arr = call.arg

\* A benchmark of a list that every strategy had to reorder.
C2_Witness ==
    /\ Benchmarked
    /\ \A s \in SortStrategy : ret.results[s].swaps > 0
    /\ ~NonDecreasing(arr)
    /\ arr = call.arg

\* C3: the counts sort returns, and the counts of every benchmark entry, are
\* those a freshly constructed engine returns for the same list and strategy,
\* whatever the engine counted before.
C3_NoCarryOver ==
    /\ Sorted =>
          /\ ret.comparisons = Fresh(call.arg, ret.strategy).comparisons
          /\ ret.swaps = Fresh(call.arg, ret.strategy).swaps
    /\ Benchmarked =>
          /\ DOMAIN ret.results = SortStrategy
          /\ \A s \in SortStrategy :
                /\ ret.results[s].comparisons = Fresh(call.arg, s).comparisons
                /\ ret.results[s].swaps = Fresh(call.arg, s).swaps

\* A sort entered with counters left by an earlier call, that counted itself.
C3_Witness ==
    /\ Sorted
    /\ call.dirty
    /\ ret.comparisons > 0
    /\ ret.swaps > 0

\* C4: sort on an engine whose strategy is none of the three raises the
\* error naming that strategy, returns no SortResult, leaves the caller's
\* list alone and leaves both counters at zero.
C4_UnsupportedStrategy ==
    (call.op = "sort" /\ self.strategy \notin SortStrategy) =>
        /\ ret = [type |-> "ValueError", strategy |-> self.strategy]
        /\ self.comparisons = 0
        /\ self.swaps = 0
        /\ arr = call.arg

\* The error raised by an engine that had counted in an earlier call, on a
\* list a sort would have reordered.
C4_Witness ==
    /\ call.op = "sort"
    /\ ret.type = "ValueError"
    /\ call.dirty
    /\ ~NonDecreasing(call.arg)

\* C5: for a list of length n, the comparisons and the swaps that sort
\* reports, under every strategy, are each at most n(n-1)/2.
C5_CounterBounds ==
    /\ Sorted =>
          /\ WithinHalfSquare(ret.comparisons, Len(call.arg))
          /\ WithinHalfSquare(ret.swaps, Len(call.arg))
    /\ Benchmarked =>
          \A s \in SortStrategy :
             /\ WithinHalfSquare(ret.results[s].comparisons, Len(call.arg))
             /\ WithinHalfSquare(ret.results[s].swaps, Len(call.arg))

\* A benchmark in which every strategy meets both bounds, on three or more elements.
C5_Witness ==
    /\ Benchmarked
    /\ Len(call.arg) >= 3
    /\ \A s \in SortStrategy :
          /\ 2 * ret.results[s].comparisons = Len(call.arg) * (Len(call.arg) - 1)
          /\ 2 * ret.results[s].swaps = Len(call.arg) * (Len(call.arg) - 1)

\* C6: a list already in non-decreasing order comes back unchanged with no
\* swap under every strategy; so the list a sort returns, sorted again under
\* any strategy, comes back unchanged with no swap.
C6_SortedInputUnchanged ==
    Sorted =>
        /\ NonDecreasing(call.arg) => (ret.sorted_array = call.arg /\ ret.swaps = 0)
        /\ \A s \in SortStrategy :
              /\ Fresh(ret.sorted_array, s).sorted_array = ret.sorted_array
              /\ Fresh(ret.sorted_array, s).swaps = 0

\* A sort of an ordered list with equal neighbours that was compared through.
C6_Witness ==
    /\ Sorted
    /\ NonDecreasing(call.arg)
    /\ Len(call.arg) >= 3
    /\ \E i \in 1 .. Len(call.arg) - 1 : call.arg[i].key = call.arg[i + 1].key
    /\ ret.comparisons > 0
    /\ ret.swaps = 0

\* C7: for a list of length 0 or 1 every strategy returns the list as it is
\* with no comparison and no swap.
C7_EmptyAndSingleton ==
    /\ (Sorted /\ Len(call.arg) <= 1) =>
          /\ ret.comparisons = 0
          /\ ret.swaps = 0
          /\ ret.sorted_array = call.arg
    /\ (Benchmarked /\ Len(call.arg) <= 1) =>
          \A s \in SortStrategy :
             ret.results[s].comparisons = 0 /\ ret.results[s].swaps = 0

\* A sort of the empty list by an engine that had counted before.
C7_Witness ==
    /\ Sorted
    /\ Len(call.arg) = 0
    /\ call.dirty

\* C8: the sort is stable under every strategy: two elements with equal
\* keys stand in the output in the order they had in the input (elements
\* that compare equal are never swapped).
C8_Stable ==
    Sorted =>
        \A i, j \in 1 .. Len(call.arg) :
            (i < j /\ call.arg[i].key = call.arg[j].key) =>
                Pos(ret.sorted_array, call.arg[i]) < Pos(ret.sorted_array, call.arg[j])

\* A bidirectional sort that swapped, of a list with two equal keys apart
\* from each other.
C8_Witness ==
    /\ Sorted
    /\ ret.strategy = "bidirectional"
    /\ ret.swaps >= 2
    /\ \E i, j \in 1 .. Len(call.arg) :
          i + 1 < j /\ call.arg[i].key = call.arg[j].key

\* The passes of the optimized loop, one record per pass: the engine and
\* boundary the pass starts from, and the engine and boundary it ends with.
RECURSIVE OptimizedPasses(_, _, _)
OptimizedPasses(m, ref, last_swap) ==
    IF last_swap > 0
    THEN LET p == optimized_inner(m, ref, 0, last_swap, 0)
         IN  <<[m |-> m, ref |-> ref, last_swap |-> last_swap,
                boundary |-> p.current_swap, after |-> p.m]>>
             \o OptimizedPasses(p.m, ref, p.current_swap)
    ELSE << >>

\* The passes sort_optimized makes on the list a.
PassesOf(a) ==
    LET c == copy([self |-> reset_metrics(__init__("optimized")),
                   heap |-> [arr |-> a, arr_copy |-> << >>]], "arr")
    IN  OptimizedPasses(c.m, c.ref, len(a) - 1)

\* The indexes j at which the pass swapped: iteration j raised the swap counter.
SwapIndexes(pass) ==
    {j \in 0 .. pass.last_swap - 1 :
        optimized_inner(pass.m, pass.ref, 0, j + 1, 0).m.self.swaps
            > optimized_inner(pass.m, pass.ref, 0, j, 0).m.self.swaps}

\* The same for bubble_sort_optimized, where a swap shows as a changed list.
RECURSIVE PlainOptimizedPasses(_, _)
PlainOptimizedPasses(a, last_swap) ==
    IF last_swap > 0
    THEN LET p == bubble_sort_optimized_inner(a, 0, last_swap, 0)
         IN  <<[arr |-> a, last_swap |-> last_swap,
                boundary |-> p.current_swap, after |-> p.arr]>>
             \o PlainOptimizedPasses(p.arr, p.current_swap)
    ELSE << >>

PlainPassesOf(a) == PlainOptimizedPasses(a, len(a) - 1)

PlainSwapIndexes(pass) ==
    {j \in 0 .. pass.last_swap - 1 :
        bubble_sort_optimized_inner(pass.arr, 0, j + 1, 0).arr
            # bubble_sort_optimized_inner(pass.arr, 0, j, 0).arr}

HighestOrZero(S) == IF S = {} THEN 0 ELSE CHOOSE x \in S : \A y \in S : y <= x

\* The while loop ends after the pass: last_swap > 0 fails.
StopsAfter(pass) == ~(pass.boundary > 0)

\* The passes are those of the call made: the last one leaves the list returned.
PassesEndIn(passes, input, output) ==
    IF passes = << >> THEN output = input
    ELSE /\ StopsAfter(passes[Len(passes)])
         /\ \A k \in 1 .. Len(passes) - 1 : ~StopsAfter(passes[k])

OptimizedSorted == Sorted /\ ret.strategy = "optimized"

PlainOptimizedSorted == call.op = "bubble_sort_optimized"

\* Each pass sets the boundary to the highest index it swapped at, 0 if none.
BoundaryIsHighestSwap ==
    /\ OptimizedSorted =>
          LET passes == PassesOf(call.arg)
          IN  /\ PassesEndIn(passes, call.arg, ret.sorted_array)
              /\ passes # << >> =>
                    passes[Len(passes)].after.heap.arr_copy = ret.sorted_array
              /\ \A k \in 1 .. Len(passes) :
                    passes[k].boundary = HighestOrZero(SwapIndexes(passes[k]))
    /\ PlainOptimizedSorted =>
          LET passes == PlainPassesOf(call.arg)
          IN  /\ PassesEndIn(passes, call.arg, ret.list)
              /\ passes # << >> => passes[Len(passes)].after = ret.list
              /\ \A k \in 1 .. Len(passes) :
                    passes[k].boundary = HighestOrZero(PlainSwapIndexes(passes[k]))

\* C9 as stated: in the optimized algorithm each pass sets the boundary to
\* the highest index at which it swapped (0 if none), and the loop stops
\* after a pass if and only if that pass made no swap.
C9_StopsIffNoSwap ==
    /\ BoundaryIsHighestSwap
    /\ OptimizedSorted =>
          \A k \in 1 .. Len(PassesOf(call.arg)) :
             LET pass == PassesOf(call.arg)[k]
             IN  StopsAfter(pass) <=> SwapIndexes(pass) = {}
    /\ PlainOptimizedSorted =>
          \A k \in 1 .. Len(PlainPassesOf(call.arg)) :
             LET pass == PlainPassesOf(call.arg)[k]
             IN  StopsAfter(pass) <=> PlainSwapIndexes(pass) = {}

\* C9 amended: in the optimized algorithm each pass sets the boundary to the
\* highest index at which it swapped (0 if none), and the loop stops after a
\* pass if and only if that pass made no swap at an index above 0; a pass
\* without a swap always stops it, and so does a pass whose only swap is at
\* index 0.
C9_StopsIffNoSwapAboveZero ==
    /\ BoundaryIsHighestSwap
    /\ OptimizedSorted =>
          \A k \in 1 .. Len(PassesOf(call.arg)) :
             LET pass == PassesOf(call.arg)[k]
             IN  /\ StopsAfter(pass) <=> SwapIndexes(pass) \subseteq {0}
                 /\ SwapIndexes(pass) = {} => StopsAfter(pass)
    /\ PlainOptimizedSorted =>
          \A k \in 1 .. Len(PlainPassesOf(call.arg)) :
             LET pass == PlainPassesOf(call.arg)[k]
             IN  /\ StopsAfter(pass) <=> PlainSwapIndexes(pass) \subseteq {0}
                 /\ PlainSwapIndexes(pass) = {} => StopsAfter(pass)

\* An optimized sort of several passes whose last pass swapped, at index 0
\* only, and ended the loop.
C9_Witness ==
    /\ OptimizedSorted
    /\ Len(PassesOf(call.arg)) >= 2
    /\ LET pass == PassesOf(call.arg)[Len(PassesOf(call.arg))]
       IN  SwapIndexes(pass) = {0} /\ StopsAfter(pass)

\* C10: the swaps sort reports equal the inversions of the input, under
\* every strategy, so the three strategies report the same number of swaps.
C10_SwapsAreInversions ==
    /\ Sorted => ret.swaps = Inversions(call.arg)
    /\ Benchmarked =>
          \A s \in SortStrategy : ret.results[s].swaps = Inversions(call.arg)

\* A benchmark with three or more inversions in which the strategies
\* differ in comparisons.
C10_Witness ==
    /\ Benchmarked
    /\ Inversions(call.arg) >= 3
    /\ ret.results["standard"].comparisons # ret.results["optimized"].comparisons
    /\ ret.results["standard"].swaps = ret.results["bidirectional"].swaps

=============================================================================
